---- MODULE Spec2Model ----
(***************************************************************************)
(* Model of the workflow store and run engine of WorkflowProvider          *)
(* (src/src/components/workflow-provider.tsx).                             *)
(*                                                                         *)
(* The provider keeps four pieces of React state (currentWorkflow,         *)
(* workflows, workflowRuns, isRunning) and a localStorage entry under the  *)
(* key "workflows".  runWorkflow is an async function: it appends a Run,   *)
(* suspends on a 2000 ms timer and, when resumed, replaces the Run by its  *)
(* completed (or failed) copy.  The invocations suspended on their timer   *)
(* are kept in the sequence inflight, in the order the timers were armed,  *)
(* which is the order in which timers of equal delay fire.                 *)
(*                                                                         *)
(* Spec is the program as it runs: nothing in the try block of runWorkflow *)
(* throws.  SpecThrow also lets the catch block run.  SpecFair adds that   *)
(* the clock advances and timers fire.                                     *)
(*                                                                         *)
(* An optional value (currentWorkflow | null, completedAt?, result?) is a  *)
(* sequence of length 0 or 1.  Date.now() and new Date().toISOString()     *)
(* both read the clock now.  settled holds, for every invocation of        *)
(* runWorkflow that has resumed, how the promise it returned was settled.  *)
(*                                                                         *)
(* Next to the provider the module holds the two graph editors,            *)
(* WorkflowCanvas (workflow-canvas.tsx, driven by the toolbar of           *)
(* workflow-toolbar.tsx) and WorkFlowUI (part_002), and the FormBuilder of *)
(* part_001, each with specifications of its own: SpecCanvas, SpecEditor,  *)
(* SpecUI, SpecPersist, SpecForm.  SpecJson saves and loads workflows      *)
(* whose node configurations come from the node inspector.                 *)
(***************************************************************************)
EXTENDS Integers, Sequences, FiniteSets, TLC

VARIABLES now, currentWorkflow, workflows, storage, workflowRuns, isRunning,
          inflight, settled, canvasNodes, canvasEdges, uiNodes, uiEdges,
          effectsDue, uiTimers, uiStorage, schema, importText, importError

vars == <<now, currentWorkflow, workflows, storage, workflowRuns, isRunning,
          inflight, settled, canvasNodes, canvasEdges, uiNodes, uiEdges,
          effectsDue, uiTimers, uiStorage, schema, importText, importError>>

\* the state of the two editors: WorkflowCanvas's nodes and edges
\* (workflow-canvas.tsx) and WorkFlowUI's nodes and edges (part_002)
canvas == <<canvasNodes, canvasEdges, uiNodes, uiEdges>>

\* WorkFlowUI's pending save timers and its localStorage entry "wf.reactflow"
persisted == <<uiTimers, uiStorage>>

\* the state of FormBuilder (part_001)
form == <<schema, importText, importError>>

\* The two effects of WorkflowCanvas (workflow-canvas.tsx lines 53-70):
\* toCanvas copies the current workflow's nodes and edges to the canvas and
\* depends on currentWorkflow; toWorkflow copies the canvas's nodes and edges
\* into the current workflow and depends on nodes, edges and currentWorkflow.
\* effectsDue holds the effects whose dependencies changed since they last
\* ran.  Every setCurrentWorkflow with a new object makes both due.
BothEffects == {"toCanvas", "toWorkflow"}

\* the state of WorkflowProvider
provider == <<currentWorkflow, workflows, storage, workflowRuns, isRunning,
              inflight, settled>>

(***************************************************************************)
(* Bounds of the model.                                                    *)
(***************************************************************************)
MaxClock == 3
MaxRuns == 2

\* nodes and edges on WorkflowCanvas
MaxNodes == 3

MaxEdges == 3

\* nodes and edges in WorkFlowUI
MaxUiNodes == 3

MaxUiEdges == 2

\* elements of a form
MaxElements == 3

(***************************************************************************)
(* Inputs: the names and graphs a caller may hand to saveWorkflow.         *)
(***************************************************************************)
Node(id, kind) == [id |-> id, kind |-> kind]

Edge(s, p, t) == [source |-> s, sourcePort |-> p, target |-> t]

Graph(ns, es) == [nodes |-> ns, edges |-> es]

\* the graph the toolbar's handleSave passes: no nodes, no edges
GraphEmpty == Graph(<<>>, <<>>)

GraphChain ==
    Graph(<<Node("1", "trigger.manual"), Node("2", "action.email")>>,
          <<Edge("1", 0, "2")>>)

\* trigger -> A -> B -> A
GraphCycle ==
    Graph(<<Node("1", "trigger.manual"), Node("2", "action.email"),
            Node("3", "action.llm")>>,
          <<Edge("1", 0, "2"), Edge("2", 0, "3"), Edge("3", 0, "2")>>)

\* the (name, graph) pairs a caller passes to saveWorkflow
SaveInputs == {<<"a", GraphChain>>, <<"b", GraphCycle>>}

(***************************************************************************)
(* Array helpers of the code: find, findIndex, map-replace, filter.        *)
(***************************************************************************)
HasId(list, id) == \E i \in 1..Len(list) : list[i].id = id

FindById(list, id) ==
    LET i == CHOOSE j \in 1..Len(list) :
                 list[j].id = id /\ \A k \in 1..(j - 1) : list[k].id # id
    IN list[i]

ReplaceById(list, id, item) ==
    [i \in 1..Len(list) |-> IF list[i].id = id THEN item ELSE list[i]]

RejectById(list, id) == SelectSeq(list, LAMBDA w : w.id # id)

(***************************************************************************)
(* JSON.  A value of a node's config is a tagged record; JSON.stringify    *)
(* writes NaN as null and leaves out a key whose value is undefined.       *)
(* localStorage holds text: storage is the value JSON.parse returns for    *)
(* that text.                                                              *)
(***************************************************************************)
Num(n) == [t |-> "number", v |-> n]

Str(x) == [t |-> "string", v |-> x]

NaN == [t |-> "NaN"]

Undefined == [t |-> "undefined"]

Null == [t |-> "null"]

JsonValue(v) == IF v.t = "NaN" THEN Null ELSE v

JsonConfig(c) ==
    [k \in {x \in DOMAIN c : c[x] # Undefined} |-> JsonValue(c[k])]

JsonNode(n) ==
    IF "config" \in DOMAIN n
    THEN [n EXCEPT !.config = JsonConfig(n.config)]
    ELSE n

JsonWorkflow(w) ==
    [w EXCEPT !.nodes = [i \in 1..Len(w.nodes) |-> JsonNode(w.nodes[i])]]

\* JSON.parse(JSON.stringify(list)) of a list of workflows
JsonRoundTrip(list) == [i \in 1..Len(list) |-> JsonWorkflow(list[i])]

\* an action.llm node as the inspector configures it: maxTokens is
\* Number.parseInt of the field's text, promptTemplate the text itself
LlmNode(id, c) == [id |-> id, kind |-> "action.llm", config |-> c]

LlmConfigs ==
    UNION {{c \in [D -> {Num(1000), NaN, Str("p")}] :
               /\ "maxTokens" \in D => c["maxTokens"] \in {Num(1000), NaN}
               /\ "promptTemplate" \in D => c["promptTemplate"] = Str("p")} :
           D \in SUBSET {"maxTokens", "promptTemplate"}}

GraphLlm(c) ==
    Graph(<<Node("1", "trigger.manual"), LlmNode("2", c)>>,
          <<Edge("1", 0, "2")>>)

\* the (name, graph) pairs saved from a canvas with a configured LLM node
JsonInputs == {<<name, GraphLlm(c)>> : name \in {"a", "b"}, c \in LlmConfigs}

(***************************************************************************)
(* Workflow and Run records.                                               *)
(***************************************************************************)
\* description, outputs, createdAt and updatedAt are carried along like name
\* and are left out of the record
Workflow(id, name, g) ==
    [id |-> id, name |-> name, nodes |-> g.nodes, edges |-> g.edges]

\* a workflow left in localStorage by an earlier session (clock value 0)
StoredWorkflow == Workflow(0, "a", GraphEmpty)

\* logs: [`Starting workflow: ${workflow.name}`]
StartingLog(name) == <<"Starting workflow: ", name>>

\* NewRun with the status of the spec's state machine instead of the code's
NewRunPending(workflowId, workflow, t) ==
    [id |-> t, workflowId |-> workflowId, status |-> "pending",
     startedAt |-> t, completedAt |-> <<>>,
     logs |-> <<StartingLog(workflow.name)>>, result |-> <<>>]

NewRun(workflowId, workflow, t) ==
    [id |-> t, workflowId |-> workflowId, status |-> "running",
     startedAt |-> t, completedAt |-> <<>>,
     logs |-> <<StartingLog(workflow.name)>>, result |-> <<>>]

\* CompletedRun that reads the workflow again from the list when it resumes
CompletedRunRereads(run, t) ==
    LET first == IF HasId(workflows, run.workflowId)
                 THEN StartingLog(FindById(workflows, run.workflowId).name)
                 ELSE <<"Starting workflow: ", "undefined">>
    IN [run EXCEPT !.status = "completed",
                   !.completedAt = <<t>>,
                   !.logs = <<first,
                              <<"Executing nodes in sequence...">>,
                              <<"All nodes completed successfully">>,
                              <<"Workflow execution finished">>>>,
                   !.result = <<[success |-> TRUE,
                                 message |-> "Workflow completed successfully"]>>]

\* CompletedRun that forgets to set the status
CompletedRunNoStatus(run, t) ==
    [run EXCEPT !.completedAt = <<t>>,
                !.logs = run.logs \o <<<<"Executing nodes in sequence...">>,
                                       <<"All nodes completed successfully">>,
                                       <<"Workflow execution finished">>>>,
                !.result = <<[success |-> TRUE,
                              message |-> "Workflow completed successfully"]>>]

CompletedRun(run, t) ==
    [run EXCEPT !.status = "completed",
                !.completedAt = <<t>>,
                !.logs = run.logs \o <<<<"Executing nodes in sequence...">>,
                                       <<"All nodes completed successfully">>,
                                       <<"Workflow execution finished">>>>,
                !.result = <<[success |-> TRUE,
                              message |-> "Workflow completed successfully"]>>]

\* FailedRun that does not log the error
FailedRunNoEntry(run, t) ==
    [run EXCEPT !.status = "failed",
                !.completedAt = <<t>>]

\* FailedRun that records the abort as a cancellation
FailedRunCancelled(run, t) ==
    [run EXCEPT !.status = "cancelled",
                !.completedAt = <<t>>,
                !.logs = run.logs \o <<<<"Error: ", "error">>>>]

FailedRun(run, t) ==
    [run EXCEPT !.status = "failed",
                !.completedAt = <<t>>,
                !.logs = run.logs \o <<<<"Error: ", "error">>>>]

(***************************************************************************)
(* The Validator.  The repository has no validator; the checks are those   *)
(* the specification lists for validate(workflow): edge endpoints exist,   *)
(* and the subgraph reachable from the trigger is acyclic.                 *)
(***************************************************************************)
NodeIds(g) == {g.nodes[i].id : i \in 1..Len(g.nodes)}

TriggerKinds ==
    {"trigger.manual", "trigger.cron", "trigger.webhook", "trigger.form"}

Triggers(g) ==
    {g.nodes[i].id : i \in {j \in 1..Len(g.nodes) :
                               g.nodes[j].kind \in TriggerKinds}}

Successors(g, n) ==
    {g.edges[i].target : i \in {j \in 1..Len(g.edges) : g.edges[j].source = n}}

\* nodes reached from the set from in at most k steps
RECURSIVE ReachedIn(_, _, _)
ReachedIn(g, from, k) ==
    IF k = 0 THEN from
    ELSE LET prev == ReachedIn(g, from, k - 1)
         IN prev \cup UNION {Successors(g, n) : n \in prev}

Reachable(g, from) == ReachedIn(g, from, Len(g.edges))

HasDanglingEdge(g) ==
    \E i \in 1..Len(g.edges) :
        g.edges[i].source \notin NodeIds(g) \/ g.edges[i].target \notin NodeIds(g)

HasCycle(g) ==
    \E n \in Reachable(g, Triggers(g)) : n \in Reachable(g, Successors(g, n))

Violations(g) ==
    (IF HasDanglingEdge(g) THEN {"DanglingEdge"} ELSE {})
        \cup (IF HasCycle(g) THEN {"CycleDetected"} ELSE {})

(***************************************************************************)
(* The editors.  WorkflowCanvas (workflow-canvas.tsx) and WorkFlowUI        *)
(* (part_002) each keep a list of nodes and a list of edges and add edges   *)
(* with the library's addEdge.  A connection always has a source and a      *)
(* target; its targetHandle is always null (the target handles have no id)  *)
(* and is left out.  An optional value is a sequence of length 0 or 1.      *)
(***************************************************************************)
Connection(s, h, t) == [source |-> s, sourceHandle |-> h, target |-> t]

LabelledConnection(s, h, t, label) ==
    [source |-> s, sourceHandle |-> h, target |-> t, label |-> label]

\* addEdge's connectionExists: same source, target and source handle
connectionExists(edge, eds) ==
    \E i \in 1..Len(eds) :
        /\ eds[i].source = edge.source
        /\ eds[i].target = edge.target
        /\ eds[i].sourceHandle = edge.sourceHandle

\* a variant that puts the new edge first
addEdgeFirst(edge, eds) ==
    IF connectionExists(edge, eds) THEN eds ELSE <<edge>> \o eds

\* addEdge(edgeParams, edges): the list with the edge at its end, or the
\* list itself when the connection is already there
addEdge(edge, eds) ==
    IF connectionExists(edge, eds) THEN eds ELSE Append(eds, edge)

\* WorkflowCanvas starts with the manual trigger, id "1"
initialNodes == <<Node("1", "trigger.manual")>>

\* the palette entry dragged onto the canvas, written type.nodeType (one of
\* the eight; every entry that is not a trigger gets the same handles)
DropKinds == {"action.email"}

\* `${Date.now()}`: the decimal string of the millisecond.  The clock of the
\* model counts from 1 and Date.now() from 1970, so the string carries a
\* mark that keeps it apart from the id "1" of initialNodes.
DateNowString(t) == "ms" \o ToString(t)

\* WorkflowNode and NodeBase render a target handle on every node that is
\* not a trigger
HasTargetHandle(kind) == kind \notin TriggerKinds

NodesWithId(ns, id) == {i \in 1..Len(ns) : ns[i].id = id}

\* onDrop, workflow-canvas.tsx lines 96-123
onDrop(kind) ==
    /\ Len(canvasNodes) < MaxNodes
    /\ canvasNodes' = Append(canvasNodes, Node(DateNowString(now), kind))
    /\ effectsDue' = effectsDue \cup {"toWorkflow"}
    /\ UNCHANGED <<now, provider, persisted, form, canvasEdges, uiNodes,
                   uiEdges>>

\* onConnect, workflow-canvas.tsx line 72: the user drags from the source
\* handle of s (it has no id) to the target handle of t
onConnect(s, t) ==
    /\ NodesWithId(canvasNodes, s) # {}
    /\ \E i \in NodesWithId(canvasNodes, t) : HasTargetHandle(canvasNodes[i].kind)
    /\ Len(canvasEdges) < MaxEdges
    /\ canvasEdges' = addEdge(Connection(s, <<>>, t), canvasEdges)
    /\ effectsDue' = IF canvasEdges' = canvasEdges
                     THEN effectsDue ELSE effectsDue \cup {"toWorkflow"}
    /\ UNCHANGED <<now, provider, persisted, form, canvasNodes, uiNodes,
                   uiEdges>>

\* the kinds WorkFlowUI's palette adds (three of the eight)
UiKinds == {"trigger.manual", "action.email", "logic.if"}

\* makeId() is a random string of seven characters; two nodes never get the
\* same one, and which string a node gets changes nothing else, so the k-th
\* node added gets the k-th id of this set.
UiIds == {ToString(i) : i \in 1..MaxUiNodes}

makeId(ns) == ToString(Len(ns) + 1)

\* TriggerNode and ActionNode have one output, IfNode has two
Outputs(kind) == IF kind = "logic.if" THEN 2 ELSE 1

\* a variant where every node has the two source handles
SourceHandlesTwo(kind) == {"0", "1"}

\* NodeBase: one source handle per output, with id String(i)
SourceHandles(kind) == {ToString(i) : i \in 0..(Outputs(kind) - 1)}

\* what the user answers to the prompt, trimmed and in lower case; the empty
\* sequence is a cancelled prompt
PromptAnswers == {<<>>, <<"true">>, <<"false">>, <<"yes">>}

\* saveLocal(nodes, edges), part_002 lines 101-103: the value JSON.parse
\* reads back from the text JSON.stringify writes.  Ids, kinds, handles and
\* labels are strings and come back as they were; an edge's label and data
\* that are undefined are left out of the text and read back as undefined,
\* which the empty sequence stands for in both cases.
saveLocal(ns, es) == [nodes |-> ns, edges |-> es]

\* loadLocal(), lines 104-113, with the fallback of line 131
loadLocal(stored) ==
    IF stored = <<>> THEN [nodes |-> <<>>, edges |-> <<>>] ELSE stored[1]

\* a persist effect without the cleanup: the earlier timers stay armed
SchedulePersistKeep(timers, ns, es) ==
    Append(timers, [nodes |-> ns, edges |-> es])

\* the persist effect, lines 139-142, when nodes or edges changed: the
\* cleanup clears the timer of the previous render, then a timer of 400 ms
\* is armed that holds the nodes and edges of this render
SchedulePersist(timers, ns, es) == <<[nodes |-> ns, edges |-> es]>>

\* addNode(type), part_002 lines 145-160
addNode(type) ==
    /\ Len(uiNodes) < MaxUiNodes
    /\ uiNodes' = Append(uiNodes, Node(makeId(uiNodes), type))
    /\ uiTimers' = SchedulePersist(uiTimers, uiNodes', uiEdges)
    /\ UNCHANGED <<now, provider, form, uiStorage, effectsDue, canvasNodes,
                   canvasEdges, uiEdges>>

\* onConnect of WorkFlowUI, part_002 lines 163-188: the user drags from the
\* source handle h of node s to the target handle of node t and, when s is an
\* IF node, answers the prompt with ans
onConnectUI(s, h, t, ans) ==
    /\ \E i \in NodesWithId(uiNodes, s) : h \in SourceHandles(uiNodes[i].kind)
    /\ \E i \in NodesWithId(uiNodes, t) : HasTargetHandle(uiNodes[i].kind)
    /\ Len(uiEdges) < MaxUiEdges
    /\ LET src == uiNodes[CHOOSE i \in NodesWithId(uiNodes, s) : TRUE]
           isIf == src.kind = "logic.if"
           label == IF isIf /\ ans \in {<<"true">>, <<"false">>}
                    THEN ans ELSE <<>>
       IN uiEdges' = addEdge(LabelledConnection(s, <<h>>, t, label), uiEdges)
    /\ uiTimers' = IF uiEdges' = uiEdges
                   THEN uiTimers
                   ELSE SchedulePersist(uiTimers, uiNodes, uiEdges')
    /\ UNCHANGED <<now, provider, form, uiStorage, effectsDue, canvasNodes,
                   canvasEdges, uiNodes>>

\* the oldest armed timer of the persist effect fires: saveLocal writes the
\* nodes and edges the timer holds
persistFires ==
    /\ uiTimers # <<>>
    /\ uiStorage' = <<saveLocal(Head(uiTimers).nodes, Head(uiTimers).edges)>>
    /\ uiTimers' = Tail(uiTimers)
    /\ UNCHANGED <<now, provider, form, effectsDue, canvas>>

(***************************************************************************)
(* FormBuilder (part_001, lines 1-840).  A schema has a title and a list    *)
(* of elements; of an element the model keeps id, fieldName and type, the  *)
(* three fields handleImport looks at (description, required, placeholder   *)
(* and options are left out).  generateId() yields a UUID no other element  *)
(* has.  The text of the import box is the empty text, a text that is not   *)
(* JSON, or the JSON text of a schema.                                     *)
(***************************************************************************)
Element(id, fieldName, type) ==
    [id |-> id, fieldName |-> fieldName, type |-> type]

FormSchema(title, elements) == [title |-> title, elements |-> elements]

SAMPLE_FORM ==
    FormSchema("Contact Form",
               <<Element("e1", "Full Name", "text"),
                 Element("e2", "Email Address", "text"),
                 Element("e3", "How did you hear about us?", "radio")>>)

ElementIds(elements) == {elements[i].id : i \in 1..Len(elements)}

\* generateId(): an id no element of the list has (the first free one)
generateId(elements) ==
    LET free == {n \in 1..(Len(elements) + 1) :
                    ("e" \o ToString(n)) \notin ElementIds(elements)}
    IN "e" \o ToString(CHOOSE n \in free : \A m \in free : n <= m)

\* createDefaultElement(type), lines 52-78
createDefaultElement(type, elements) ==
    Element(generateId(elements), "New " \o type \o " field", type)

EmptyText == [kind |-> "empty"]

GarbageText == [kind |-> "garbage"]

\* exportJson, line 159: JSON.stringify(schema, null, 2).  Title, ids, field
\* names and types are strings, which JSON.parse reads back as they were.
exportJson(sch) == [kind |-> "json", value |-> sch]

\* the import modal (lines 205-236) covers the builder while it is open; it
\* is closed by Cancel and by a successful import, which both clear the text
\* and the error
ImportClosed == importText = EmptyText /\ importError = ""

\* handleNewForm, lines 124-131
handleNewForm ==
    /\ ImportClosed
    /\ schema' = FormSchema("Untitled Form", <<>>)
    /\ UNCHANGED <<now, provider, canvas, persisted, effectsDue, importText,
                   importError>>

\* updateSchema({title}), lines 279-281 and 380
updateSchema(title) ==
    /\ ImportClosed
    /\ schema' = [schema EXCEPT !.title = title]
    /\ UNCHANGED <<now, provider, canvas, persisted, effectsDue, importText,
                   importError>>

\* addElement, lines 283-289
addElement(type) ==
    /\ ImportClosed
    /\ Len(schema.elements) < MaxElements
    /\ schema' = [schema EXCEPT !.elements =
                     Append(@, createDefaultElement(type, schema.elements))]
    /\ UNCHANGED <<now, provider, canvas, persisted, effectsDue, importText,
                   importError>>

\* updateElement(id, {fieldName}), lines 291-307 and 547
updateElement(id, fieldName) ==
    /\ ImportClosed
    /\ schema' = [schema EXCEPT !.elements =
                     [i \in 1..Len(@) |->
                         IF @[i].id # id THEN @[i]
                         ELSE [@[i] EXCEPT !.fieldName = fieldName]]]
    /\ UNCHANGED <<now, provider, canvas, persisted, effectsDue, importText,
                   importError>>

\* elements.findIndex(el => el.id === id), counted from 1; 0 when there is
\* none
findIndex(elements, id) ==
    IF id \notin ElementIds(elements) THEN 0
    ELSE CHOOSE i \in 1..Len(elements) :
             /\ elements[i].id = id
             /\ \A k \in 1..(i - 1) : elements[k].id # id

\* a moveElement that writes the element over its neighbour
moveElementCopies(id, direction) ==
    /\ ImportClosed
    /\ LET elements == schema.elements
           index == findIndex(elements, id)
           newIndex == IF direction = "up" THEN index - 1 ELSE index + 1
       IN IF index = 0 \/ newIndex < 1 \/ newIndex > Len(elements)
          THEN UNCHANGED schema
          ELSE schema' = [schema EXCEPT !.elements =
                             [elements EXCEPT ![newIndex] = elements[index]]]
    /\ UNCHANGED <<now, provider, canvas, persisted, effectsDue, importText,
                   importError>>

\* moveElement(id, direction), lines 316-328
moveElement(id, direction) ==
    /\ ImportClosed
    /\ LET elements == schema.elements
           index == findIndex(elements, id)
           newIndex == IF direction = "up" THEN index - 1 ELSE index + 1
       IN IF index = 0 \/ newIndex < 1 \/ newIndex > Len(elements)
          THEN UNCHANGED schema
          ELSE schema' = [schema EXCEPT !.elements =
                             [elements EXCEPT ![index] = elements[newIndex],
                                              ![newIndex] = elements[index]]]
    /\ UNCHANGED <<now, provider, canvas, persisted, effectsDue, importText,
                   importError>>

\* the user opens the import modal and types or pastes a text (line 211)
setImportText(text) ==
    /\ importText' = text
    /\ UNCHANGED <<now, provider, canvas, persisted, effectsDue, schema,
                   importError>>

\* Cancel in the import modal, lines 225-230
cancelImport ==
    /\ ~ImportClosed
    /\ importText' = EmptyText
    /\ importError' = ""
    /\ UNCHANGED <<now, provider, canvas, persisted, effectsDue, schema>>

\* handleImport, lines 133-157: a falsy title, id, fieldName or type is the
\* empty string
handleImport ==
    /\ IF importText.kind # "json"
       THEN /\ importError' = "SyntaxError"
            /\ UNCHANGED <<schema, importText>>
       ELSE LET parsed == importText.value
            IN IF parsed.title = ""
               THEN /\ importError' =
                         "Invalid schema: must have title and elements array"
                    /\ UNCHANGED <<schema, importText>>
               ELSE IF \E i \in 1..Len(parsed.elements) :
                           \/ parsed.elements[i].id = ""
                           \/ parsed.elements[i].fieldName = ""
                           \/ parsed.elements[i].type = ""
                    THEN /\ importError' =
                              "Invalid element: missing required fields"
                         /\ UNCHANGED <<schema, importText>>
                    ELSE /\ schema' = parsed
                         /\ importText' = EmptyText
                         /\ importError' = ""
    /\ UNCHANGED <<now, provider, canvas, persisted, effectsDue>>

(***************************************************************************)
(* Init: the provider mounts; workflows is read from localStorage.         *)
(***************************************************************************)
Init ==
    /\ now = 1
    /\ currentWorkflow = <<>>
    /\ storage \in {<<>>, <<StoredWorkflow>>}
    /\ workflows = storage
    /\ workflowRuns = <<>>
    /\ isRunning = FALSE
    /\ inflight = <<>>
    /\ settled = <<>>
    /\ canvasNodes = initialNodes
    /\ canvasEdges = <<>>
    /\ effectsDue = {}
    /\ uiStorage = <<>>
    /\ uiNodes = loadLocal(uiStorage).nodes
    /\ uiEdges = loadLocal(uiStorage).edges
    /\ uiTimers = SchedulePersist(<<>>, uiNodes, uiEdges)
    /\ schema = SAMPLE_FORM
    /\ importText = EmptyText
    /\ importError = ""

\* time passes
Tick ==
    /\ now < MaxClock
    /\ now' = now + 1
    /\ UNCHANGED <<canvas, persisted, form, effectsDue, currentWorkflow, workflows, storage, workflowRuns,
                   isRunning, inflight, settled>>

(***************************************************************************)
(* saveWorkflow(name, description, nodes, edges, outputs), lines 55-90.    *)
(***************************************************************************)
\* setWorkflows updater, lines 69-75
WorkflowsAfterSave(prev, workflow) ==
    IF HasId(prev, workflow.id)
    THEN ReplaceById(prev, workflow.id, workflow)
    ELSE Append(prev, workflow)

\* a localStorage update that pushes without looking for the id
StorageAfterSavePush(saved, workflow) == Append(saved, workflow)

\* localStorage update, lines 80-87: only the first entry with the id
StorageAfterSave(saved, workflow) ==
    IF HasId(saved, workflow.id)
    THEN LET first == CHOOSE j \in 1..Len(saved) :
                          /\ saved[j].id = workflow.id
                          /\ \A k \in 1..(j - 1) : saved[k].id # workflow.id
         IN [saved EXCEPT ![first] = workflow]
    ELSE Append(saved, workflow)

saveWorkflow(name, g) ==
    LET id == IF currentWorkflow # <<>> THEN currentWorkflow[1].id ELSE now
        workflow == Workflow(id, name, g)
    IN /\ workflows' = WorkflowsAfterSave(workflows, workflow)
       /\ currentWorkflow' = <<workflow>>
       /\ storage' = JsonRoundTrip(StorageAfterSave(storage, workflow))
       /\ effectsDue' = BothEffects
       /\ UNCHANGED <<canvas, persisted, form, now, workflowRuns, isRunning,
                      inflight, settled>>

(***************************************************************************)
(* loadWorkflow(workflowId), lines 92-109.                                 *)
(***************************************************************************)
loadWorkflow(workflowId) ==
    /\ IF HasId(storage, workflowId)
       THEN LET workflow == FindById(storage, workflowId)
            IN /\ currentWorkflow' = <<workflow>>
               /\ workflows' = IF HasId(workflows, workflowId)
                               THEN workflows
                               ELSE Append(workflows, workflow)
               /\ effectsDue' = BothEffects
       ELSE UNCHANGED <<currentWorkflow, workflows, effectsDue>>
    /\ UNCHANGED <<canvas, persisted, form, now, storage, workflowRuns,
                   isRunning, inflight, settled>>

(***************************************************************************)
(* deleteWorkflow(workflowId), lines 111-125.                              *)
(***************************************************************************)
deleteWorkflow(workflowId) ==
    /\ workflows' = RejectById(workflows, workflowId)
    /\ storage' = JsonRoundTrip(RejectById(storage, workflowId))
    /\ IF currentWorkflow # <<>> /\ currentWorkflow[1].id = workflowId
       THEN currentWorkflow' = <<>> /\ effectsDue' = BothEffects
       ELSE UNCHANGED <<currentWorkflow, effectsDue>>
    /\ UNCHANGED <<canvas, persisted, form, now, workflowRuns, isRunning,
                   inflight, settled>>

(***************************************************************************)
(* runWorkflow(workflowId), lines 127-176, up to the await: the part that  *)
(* runs synchronously in the caller.                                       *)
(***************************************************************************)
\* runWorkflow whose find predicate is always true, (w) => w.id: it runs the
\* first workflow of the list whatever id is asked for
runWorkflowFirstOnly(workflowId) ==
    /\ Len(workflowRuns) < MaxRuns
    /\ now < MaxClock
    /\ IF workflows = <<>>
       THEN UNCHANGED <<workflowRuns, isRunning, inflight>>
       ELSE LET workflow == workflows[1]
                run == NewRun(workflow.id, workflow, now)
            IN /\ isRunning' = TRUE
               /\ workflowRuns' = Append(workflowRuns, run)
               /\ inflight' = Append(inflight,
                                     [run |-> run, workflow |-> workflow])
    /\ UNCHANGED <<canvas, persisted, form, effectsDue, now, currentWorkflow,
                   workflows, storage, settled>>

\* runWorkflow that sets isRunning before it looks the workflow up
runWorkflowFlagFirst(workflowId) ==
    /\ Len(workflowRuns) < MaxRuns
    /\ now < MaxClock
    /\ isRunning' = TRUE
    /\ IF ~HasId(workflows, workflowId)
       THEN UNCHANGED <<workflowRuns, inflight>>
       ELSE LET workflow == FindById(workflows, workflowId)
                run == NewRun(workflowId, workflow, now)
            IN /\ workflowRuns' = Append(workflowRuns, run)
               /\ inflight' = Append(inflight,
                                     [run |-> run, workflow |-> workflow])
    /\ UNCHANGED <<canvas, persisted, form, effectsDue, now, currentWorkflow,
                   workflows, storage, settled>>

runWorkflow(workflowId) ==
    /\ Len(workflowRuns) < MaxRuns
    /\ now < MaxClock
    /\ IF ~HasId(workflows, workflowId)
       THEN UNCHANGED <<workflowRuns, isRunning, inflight>>
       ELSE LET workflow == FindById(workflows, workflowId)
                run == NewRun(workflowId, workflow, now)
            IN /\ isRunning' = TRUE
               /\ workflowRuns' = Append(workflowRuns, run)
               /\ inflight' = Append(inflight,
                                     [run |-> run, workflow |-> workflow])
    /\ UNCHANGED <<canvas, persisted, form, effectsDue, now, currentWorkflow,
                   workflows, storage, settled>>

(***************************************************************************)
(* runWorkflow after the await.  The oldest suspended invocation resumes   *)
(* once its timer has elapsed; the try block ends normally (lines 148-161) *)
(* or an exception reaches the catch block (lines 162-170); the finally    *)
(* block (line 172) runs in both cases.                                    *)
(***************************************************************************)
runCompletes ==
    /\ inflight # <<>>
    /\ now > Head(inflight).run.startedAt
    /\ LET run == Head(inflight).run
       IN workflowRuns' = ReplaceById(workflowRuns, run.id,
                                      CompletedRun(run, now))
    /\ isRunning' = FALSE
    /\ inflight' = Tail(inflight)
    /\ settled' = Append(settled, "fulfilled")
    /\ UNCHANGED <<canvas, persisted, form, effectsDue, now, currentWorkflow,
                   workflows, storage>>

\* runFails whose catch block throws the error again
runFailsRethrows ==
    /\ inflight # <<>>
    /\ now > Head(inflight).run.startedAt
    /\ LET run == Head(inflight).run
       IN workflowRuns' = ReplaceById(workflowRuns, run.id,
                                      FailedRun(run, now))
    /\ isRunning' = FALSE
    /\ inflight' = Tail(inflight)
    /\ settled' = Append(settled, "rejected")
    /\ UNCHANGED <<canvas, persisted, form, effectsDue, now, currentWorkflow,
                   workflows, storage>>

runFails ==
    /\ inflight # <<>>
    /\ now > Head(inflight).run.startedAt
    /\ LET run == Head(inflight).run
       IN workflowRuns' = ReplaceById(workflowRuns, run.id,
                                      FailedRun(run, now))
    /\ isRunning' = FALSE
    /\ inflight' = Tail(inflight)
    /\ settled' = Append(settled, "fulfilled")
    /\ UNCHANGED <<canvas, persisted, form, effectsDue, now, currentWorkflow,
                   workflows, storage>>

\* the ids a caller may pass: those on screen, in storage, and an unknown one
(***************************************************************************)
(* The toolbar (workflow-toolbar.tsx) and the effects of WorkflowCanvas.    *)
(***************************************************************************)
\* handleSave, lines 51-59: the toolbar passes empty arrays for nodes and
\* edges, whatever the canvas shows
handleSave(name) == saveWorkflow(name, GraphEmpty)

\* handleLoad, lines 61-69: the dialog lists the workflows of the provider
handleLoad(workflowId) ==
    /\ HasId(workflows, workflowId)
    /\ loadWorkflow(workflowId)

\* what the first effect (lines 53-58) puts on the canvas for the current
\* workflow cw: its nodes, or initialNodes when it has none, and its edges
CanvasOf(cw) ==
    <<IF Len(cw.nodes) > 0 THEN cw.nodes ELSE initialNodes, cw.edges>>

\* One commit of WorkflowCanvas: the effects that are due run in the order
\* they are declared, both on the values of the render they belong to (the
\* state before the step).  toCanvas calls setNodes and setEdges, toWorkflow
\* calls setCurrentWorkflow with a new object; with no current workflow both
\* do nothing.  updatedAt is not part of the model's workflow record.
runEffects ==
    /\ effectsDue # {}
    /\ IF currentWorkflow = <<>>
       THEN /\ effectsDue' = {}
            /\ UNCHANGED <<currentWorkflow, canvasNodes, canvasEdges>>
       ELSE LET cw == currentWorkflow[1]
            IN /\ IF "toCanvas" \in effectsDue
                  THEN /\ canvasNodes' = CanvasOf(cw)[1]
                       /\ canvasEdges' = CanvasOf(cw)[2]
                  ELSE UNCHANGED <<canvasNodes, canvasEdges>>
               /\ IF "toWorkflow" \in effectsDue
                  THEN /\ currentWorkflow' =
                             <<[cw EXCEPT !.nodes = canvasNodes,
                                          !.edges = canvasEdges]>>
                       /\ effectsDue' = BothEffects
                  ELSE /\ UNCHANGED currentWorkflow
                       /\ effectsDue' =
                             IF <<canvasNodes', canvasEdges'>>
                                   = <<canvasNodes, canvasEdges>>
                             THEN {} ELSE {"toWorkflow"}
    /\ UNCHANGED <<now, workflows, storage, workflowRuns, isRunning, inflight,
                   settled, uiNodes, uiEdges, persisted, form>>

UnknownId == 99

CallIds ==
    {workflows[i].id : i \in 1..Len(workflows)}
        \cup {storage[i].id : i \in 1..Len(storage)} \cup {UnknownId}

Next ==
    \/ Tick
    \/ \E in \in SaveInputs : saveWorkflow(in[1], in[2])
    \/ \E id \in CallIds : loadWorkflow(id)
    \/ \E id \in CallIds : deleteWorkflow(id)
    \/ \E id \in CallIds : runWorkflow(id)
    \/ runCompletes

\* The program as it runs: the awaited promise is resolved by a timer and
\* nothing in the try block throws, so the catch block is never entered.
Spec == Init /\ [][Next]_vars

\* The program with the catch block reachable: the simulated execution in
\* the try block may throw.
NextThrow == Next \/ runFails

SpecThrow == Init /\ [][NextThrow]_vars

\* Saving and loading workflows whose nodes carry a config.
NextJson ==
    \/ \E in \in JsonInputs : saveWorkflow(in[1], in[2])
    \/ \E id \in CallIds : loadWorkflow(id)
    \/ \E id \in CallIds : deleteWorkflow(id)

SpecJson == Init /\ [][NextJson]_vars

\* WorkflowCanvas next to the provider: nodes are dropped and connected while
\* workflows are saved and run
NextCanvas ==
    \/ Tick
    \/ \E kind \in DropKinds : onDrop(kind)
    \/ \E s, t \in NodeIds(Graph(canvasNodes, <<>>)) : onConnect(s, t)
    \/ saveWorkflow("b", GraphCycle)
    \/ \E id \in CallIds : runWorkflow(id)
    \/ runCompletes

SpecCanvas == Init /\ [][NextCanvas]_vars

\* WorkFlowUI
NextUI ==
    \/ \E type \in UiKinds : addNode(type)
    \/ \E s, t \in UiIds, h \in {"0", "1"}, ans \in PromptAnswers :
          onConnectUI(s, h, t, ans)

SpecUI == Init /\ [][NextUI]_vars

\* The editor as the user drives it: the toolbar's Save and Load, drops and
\* connections on the canvas, and the canvas's effects, which React runs
\* after every commit that changed their dependencies.
NextEditor ==
    \/ Tick
    \/ handleSave("a")
    \/ \E id \in CallIds : handleLoad(id)
    \/ \E kind \in DropKinds : onDrop(kind)
    \/ \E t \in NodeIds(Graph(canvasNodes, <<>>)) : onConnect("1", t)
    \/ runEffects

SpecEditor == Init /\ [][NextEditor]_vars /\ WF_vars(runEffects)

\* WorkFlowUI with its persist timer; once armed the timer fires
NextPersist ==
    \/ \E type \in {"action.email", "logic.if"} : addNode(type)
    \/ \E s, t \in UiIds, ans \in {<<"true">>, <<>>} :
          onConnectUI(s, "0", t, ans)
    \/ persistFires

SpecPersist == Init /\ [][NextPersist]_vars /\ WF_vars(persistFires)

\* FormBuilder
ElementTypes == {"text", "radio"}

NextForm ==
    \/ handleNewForm
    \/ \E title \in {"", "Survey"} : updateSchema(title)
    \/ \E type \in ElementTypes : addElement(type)
    \/ \E id \in ElementIds(schema.elements) : updateElement(id, "")
    \/ \E id \in ElementIds(schema.elements) \cup {"unknown"},
          direction \in {"up", "down"} : moveElement(id, direction)
    \/ \E text \in {exportJson(schema), GarbageText} : setImportText(text)
    \/ cancelImport
    \/ handleImport

SpecForm == Init /\ [][NextForm]_vars

\* Timers fire and the clock advances: a suspended invocation resumes.
SpecFair ==
    /\ Init /\ [][NextThrow]_vars
    /\ WF_vars(Tick)
    /\ WF_vars(runCompletes \/ runFails)

TypeOK ==
    /\ now \in 1..MaxClock
    /\ Len(currentWorkflow) <= 1
    /\ Len(workflowRuns) <= MaxRuns
    /\ isRunning \in BOOLEAN
    /\ \A i \in 1..Len(workflowRuns) :
           workflowRuns[i].status \in {"running", "completed", "failed"}
    /\ Len(canvasNodes) <= MaxNodes
    /\ Len(canvasEdges) <= MaxEdges
    /\ Len(uiNodes) <= MaxUiNodes
    /\ Len(uiEdges) <= MaxUiEdges
    /\ effectsDue \subseteq BothEffects
    /\ Len(uiTimers) <= 1
    /\ Len(uiStorage) <= 1
    /\ importText.kind \in {"empty", "garbage", "json"}

(***************************************************************************)
(* Properties of Runs.  A Run is identified by its position in             *)
(* workflowRuns: runWorkflow appends and nothing removes an entry.         *)
(***************************************************************************)
Terminal == {"completed", "failed", "cancelled"}

RunIndexes == 1..Len(workflowRuns)

\* the status moves the state machine pending -> running -> terminal allows
RunOrder ==
    {<<"pending", "running">>} \cup {<<"running", t>> : t \in Terminal}

\* C1 (as stated): every Run is created in pending and its status changes
\* only along pending -> running -> {completed | failed | cancelled}.
C1_CreatedPending ==
    [][\A i \in 1..Len(workflowRuns') :
          IF i > Len(workflowRuns)
          THEN workflowRuns'[i].status = "pending"
          ELSE \/ workflowRuns'[i].status = workflowRuns[i].status
               \/ <<workflowRuns[i].status, workflowRuns'[i].status>>
                      \in RunOrder]_vars

\* C1 (amended): every Run is created in running, no Run is ever pending or
\* cancelled, a Run that has left running never shows running again, and no
\* Run is removed.
C1_RunningThenTerminal ==
    [][/\ Len(workflowRuns') >= Len(workflowRuns)
       /\ \A i \in 1..Len(workflowRuns') :
             IF i > Len(workflowRuns)
             THEN workflowRuns'[i].status = "running"
             ELSE /\ workflowRuns'[i].status \in {"running", "completed",
                                                   "failed"}
                  /\ workflowRuns'[i].status = "running"
                        => workflowRuns[i].status = "running"]_vars

\* a Run that went from running to completed
C1_Witness ==
    \E i \in RunIndexes :
        /\ workflowRuns[i].status = "completed"
        /\ Len(workflowRuns[i].logs) = 4

\* C2: once a Run is completed, failed or cancelled, no step changes its
\* status, its log or its result.
C2_TerminalImmutable ==
    [][\A i \in RunIndexes :
          workflowRuns[i].status \in Terminal
              => /\ Len(workflowRuns') >= i
                 /\ workflowRuns'[i].status = workflowRuns[i].status
                 /\ workflowRuns'[i].logs = workflowRuns[i].logs
                 /\ workflowRuns'[i].result = workflowRuns[i].result]_vars

\* C3 (as stated): runWorkflow on a workflow with at least one validation
\* violation creates no Run: workflowRuns is the same after the call.
C3_InvalidNotRun ==
    [][\A id \in CallIds :
          (/\ HasId(workflows, id)
           /\ Violations(FindById(workflows, id)) # {}
           /\ runWorkflow(id))
              => workflowRuns' = workflowRuns]_vars

\* C3 (amended): runWorkflow does not validate: the call leaves workflowRuns
\* as it was exactly when the id is not in workflows; for every workflow in
\* the list, with or without violations, it appends one Run in running.
C3_RunsWhateverTheGraph ==
    [][\A id \in CallIds :
          runWorkflow(id)
              => IF HasId(workflows, id)
                 THEN /\ Len(workflowRuns') = Len(workflowRuns) + 1
                      /\ workflowRuns'[Len(workflowRuns')].workflowId = id
                      /\ workflowRuns'[Len(workflowRuns')].status = "running"
                      /\ SubSeq(workflowRuns', 1, Len(workflowRuns))
                            = workflowRuns
                 ELSE workflowRuns' = workflowRuns]_vars

\* a Run in progress whose workflow has a cycle
C3_Witness ==
    \E k \in 1..Len(inflight) :
        /\ "CycleDetected" \in Violations(inflight[k].workflow)
        /\ \E i \in RunIndexes : workflowRuns[i] = inflight[k].run

\* C4: every Run that is started reaches a terminal status and from then on
\* never runs again (this holds for every workflow in the list, so also for
\* those that pass the Validator); once all Runs are terminal no invocation
\* is left to do anything.
C4_RunTerminates ==
    \A i \in 1..MaxRuns :
        [](Len(workflowRuns) >= i
             => <>[](/\ Len(workflowRuns) >= i
                     /\ workflowRuns[i].status \in Terminal))

\* a Run of a workflow without violations has reached a terminal status and
\* no invocation is suspended
C4_Witness ==
    /\ inflight = <<>>
    /\ \E i \in RunIndexes :
          /\ workflowRuns[i].status \in Terminal
          /\ HasId(workflows, workflowRuns[i].workflowId)
          /\ Violations(FindById(workflows, workflowRuns[i].workflowId)) = {}

C8_CanBeCancelled ==
    \A i \in RunIndexes :
        workflowRuns[i].status = "running"
            => ENABLED (/\ NextThrow
                        /\ workflowRuns'[i].status = "cancelled")

\* C8 (amended): a Run in running cannot be cancelled: no Run ever has the
\* status cancelled, and the invocation of every running Run stays suspended
\* on its timer until it writes completed or failed.
C8_NeverCancelled ==
    \A i \in RunIndexes :
        /\ workflowRuns[i].status \in {"running", "completed", "failed"}
        /\ workflowRuns[i].status = "running"
              => \E k \in 1..Len(inflight) :
                     inflight[k].run.id = workflowRuns[i].id

\* a Run in running whose timer has elapsed
C8_Witness ==
    \E i \in RunIndexes :
        /\ workflowRuns[i].status = "running"
        /\ now > workflowRuns[i].startedAt

\* the position in workflowRuns of the Run of the oldest suspended invocation
ResumingSlot == Len(workflowRuns) - Len(inflight) + 1

\* C9: while several Runs are in progress, no step changes the status, log
\* or result of a Run other than the one whose invocation takes the step.
C9_RunsIsolated ==
    [][\A i \in RunIndexes :
          (Len(inflight) >= 2 /\ i # ResumingSlot)
              => /\ workflowRuns'[i].status = workflowRuns[i].status
                 /\ workflowRuns'[i].logs = workflowRuns[i].logs
                 /\ workflowRuns'[i].result = workflowRuns[i].result]_vars

\* C10: a step of a Run (start, completion, failure) leaves workflows,
\* localStorage and the current workflow unchanged; the workflow an
\* invocation captured at its start stays as captured while the invocation
\* is suspended, whatever is saved or deleted meanwhile; and the Run it
\* writes on resuming is built from that captured state only.
C10_GraphUntouched ==
    [][/\ (workflowRuns' # workflowRuns \/ inflight' # inflight
              \/ isRunning' # isRunning)
           => UNCHANGED <<workflows, storage, currentWorkflow>>
       /\ \/ inflight' = inflight
          \/ inflight # <<>> /\ inflight' = Tail(inflight)
          \/ /\ Len(inflight') = Len(inflight) + 1
             /\ SubSeq(inflight', 1, Len(inflight)) = inflight
       /\ (inflight # <<>> /\ inflight' = Tail(inflight))
           => LET h == Head(inflight)
                  r == workflowRuns'[ResumingSlot]
              IN /\ r.workflowId = h.workflow.id
                 /\ r.logs[1] = StartingLog(h.workflow.name)
                 /\ r.startedAt = h.run.startedAt]_vars

\* a Run in progress whose workflow was saved anew or deleted meanwhile
C10_Witness ==
    \E k \in 1..Len(inflight) :
        \/ ~HasId(workflows, inflight[k].workflow.id)
        \/ FindById(workflows, inflight[k].workflow.id) # inflight[k].workflow

IsPrefix(s, t) == Len(s) <= Len(t) /\ SubSeq(t, 1, Len(s)) = s

\* C11: while a Run is running its log only grows at the end: after every
\* step the log it had is a prefix of the log it has.
C11_LogAppendOnly ==
    [][\A i \in RunIndexes :
          workflowRuns[i].status = "running"
              => /\ Len(workflowRuns') >= i
                 /\ IsPrefix(workflowRuns[i].logs, workflowRuns'[i].logs)]_vars

\* the positions of the `Error: ${error}` entries of a log
ErrorEntries(logs) == {k \in 1..Len(logs) : logs[k][1] = "Error: "}

\* whether a log entry contains the text x
Mentions(entry, x) == \E j \in 1..Len(entry) : entry[j] = x

\* the node ids of the graphs that are saved or stored
AllNodeIds == NodeIds(GraphEmpty) \cup NodeIds(GraphChain) \cup NodeIds(GraphCycle)

ErrorKinds == {"Timeout", "TransportError", "InvalidComparison"}

\* C13 (as stated): a failed Run has exactly one failure entry, it is the
\* last entry of the log, and it names the failing node id and the errorKind.
C13_NamesFailingNode ==
    \A i \in RunIndexes :
        workflowRuns[i].status = "failed"
            => LET logs == workflowRuns[i].logs
               IN /\ Cardinality(ErrorEntries(logs)) = 1
                  /\ Len(logs) \in ErrorEntries(logs)
                  /\ \E n \in AllNodeIds : Mentions(logs[Len(logs)], n)
                  /\ \E e \in ErrorKinds : Mentions(logs[Len(logs)], e)

\* C13 (amended): a failed Run has exactly one failure entry, it is the last
\* entry of the log and directly follows the starting entry; it is the text
\* "Error: " followed by the thrown error and names no node id and no
\* errorKind.
C13_OneErrorEntry ==
    \A i \in RunIndexes :
        workflowRuns[i].status = "failed"
            => LET logs == workflowRuns[i].logs
               IN /\ Cardinality(ErrorEntries(logs)) = 1
                  /\ Len(logs) \in ErrorEntries(logs)
                  /\ Len(logs) = 2
                  /\ Len(logs[2]) = 2
                  /\ \A n \in AllNodeIds : ~Mentions(logs[2], n)
                  /\ \A e \in ErrorKinds : ~Mentions(logs[2], e)

\* a Run that ended in failed
C13_Witness ==
    \E i \in RunIndexes : workflowRuns[i].status = "failed"

\* C14: the promise of every invocation that has resumed is fulfilled, never
\* rejected; an invocation that resumes without completing its Run leaves
\* the Run failed with the error entry at the end of its log and clears
\* isRunning.
C14_FailureStaysInRun ==
    /\ [](\A k \in 1..Len(settled) : settled[k] = "fulfilled")
    /\ [][(/\ inflight # <<>>
            /\ inflight' = Tail(inflight)
            /\ workflowRuns'[ResumingSlot].status # "completed")
             => LET r == workflowRuns'[ResumingSlot]
                IN /\ settled' = Append(settled, "fulfilled")
                   /\ r.status = "failed"
                   /\ Len(r.logs) \in ErrorEntries(r.logs)
                   /\ isRunning' = FALSE]_vars

\* an invocation has resumed and left its Run failed
C14_Witness ==
    \E i \in 1..Len(settled) : workflowRuns[i].status = "failed"

\* C16: serializing a workflow held in memory to JSON and parsing it back
\* yields the same workflow, and loadWorkflow yields, for a workflow the list
\* in memory holds since it was saved, the nodes (with kind and config) and
\* the edges held there.
C16_SaveLoadRoundTrip ==
    [][/\ \A i \in 1..Len(workflows') :
             JsonWorkflow(workflows'[i]) = workflows'[i]
       /\ \A id \in CallIds :
             (HasId(storage, id) /\ HasId(workflows, id) /\ loadWorkflow(id))
                 => /\ currentWorkflow'[1].nodes = FindById(workflows, id).nodes
                    /\ currentWorkflow'[1].edges = FindById(workflows, id).edges]_vars

\* the graph drawn on WorkflowCanvas
CanvasGraph == Graph(canvasNodes, canvasEdges)

CanvasIds == NodeIds(CanvasGraph)

\* C17 (as stated): for a graph whose part reachable from the trigger has a
\* directed cycle, run is never started: runWorkflow creates no Run while the
\* graph on the canvas or the graph of the workflow has such a cycle.
C17_CycleNeverRun ==
    [][\A id \in CallIds :
          (/\ HasId(workflows, id)
           /\ HasCycle(CanvasGraph) \/ HasCycle(FindById(workflows, id))
           /\ runWorkflow(id))
              => workflowRuns' = workflowRuns]_vars

\* C17 (amended): nothing looks for cycles.  onConnect puts every connection
\* that is not yet on the canvas at the end of the edge list, also when it
\* closes a cycle reachable from the trigger, and runWorkflow starts a Run of
\* a workflow of the list also when its graph or the graph on the canvas has
\* such a cycle.
C17_CycleIsNoObstacle ==
    [][/\ \A s, t \in CanvasIds :
             onConnect(s, t)
                 => canvasEdges' =
                       IF \E i \in 1..Len(canvasEdges) :
                              /\ canvasEdges[i].source = s
                              /\ canvasEdges[i].target = t
                       THEN canvasEdges
                       ELSE canvasEdges \o <<Connection(s, <<>>, t)>>
       /\ \A id \in CallIds :
             (/\ HasId(workflows, id)
              /\ HasCycle(CanvasGraph) \/ HasCycle(FindById(workflows, id))
              /\ runWorkflow(id))
                 => /\ Len(workflowRuns') = Len(workflowRuns) + 1
                    /\ workflowRuns'[Len(workflowRuns')].status = "running"]_vars

\* the canvas shows a cycle A -> B -> A reachable from the trigger while a
\* Run of a workflow with such a cycle is in progress
C17_Witness ==
    /\ HasCycle(CanvasGraph)
    /\ \E i, j \in 1..Len(canvasEdges) :
          /\ canvasEdges[i].source = canvasEdges[j].target
          /\ canvasEdges[j].source = canvasEdges[i].target
          /\ canvasEdges[i].source # canvasEdges[i].target
    /\ \E k \in 1..Len(inflight) : HasCycle(inflight[k].workflow)

\* the kind of the node of WorkFlowUI with this id
UiKindOf(id) == uiNodes[CHOOSE i \in NodesWithId(uiNodes, id) : TRUE].kind

\* two edges of WorkFlowUI leave the same node on the same port
SamePort(i, j) ==
    /\ i # j
    /\ uiEdges[i].source = uiEdges[j].source
    /\ uiEdges[i].sourceHandle = uiEdges[j].sourceHandle

\* C18 (as stated): in every graph WorkFlowUI holds, no logic.if node has two
\* outgoing edges on the same port and no node of another kind has an edge
\* on port 1.
C18_NoPortConflict ==
    \A i, j \in 1..Len(uiEdges) :
        /\ UiKindOf(uiEdges[i].source) = "logic.if" => ~SamePort(i, j)
        /\ UiKindOf(uiEdges[i].source) # "logic.if"
              => uiEdges[i].sourceHandle # <<"1">>

\* C18 (amended): every edge leaves its node on a handle the node has, port 0
\* for a trigger or an action and port 0 or 1 for logic.if, so no node of
\* another kind has an edge on port 1; two edges from the same port of a node
\* go to different targets, and a logic.if node may have several of them; only
\* edges of logic.if nodes carry a label, and it is true or false.
C18_PortsAreHandles ==
    \A i, j \in 1..Len(uiEdges) :
        /\ uiEdges[i].sourceHandle \in
              (IF UiKindOf(uiEdges[i].source) = "logic.if"
               THEN {<<"0">>, <<"1">>} ELSE {<<"0">>})
        /\ SamePort(i, j) => uiEdges[i].target # uiEdges[j].target
        /\ uiEdges[i].label \in
              (IF UiKindOf(uiEdges[i].source) = "logic.if"
               THEN {<<>>, <<"true">>, <<"false">>} ELSE {<<>>})

\* a logic.if node with two edges on port 0, one labelled true and the other
\* false
C18_Witness ==
    \E i, j \in 1..Len(uiEdges) :
        /\ SamePort(i, j)
        /\ UiKindOf(uiEdges[i].source) = "logic.if"
        /\ uiEdges[i].sourceHandle = <<"0">>
        /\ uiEdges[i].label = <<"true">>
        /\ uiEdges[j].label = <<"false">>

\* C23: isRunning is true exactly while some Run of workflowRuns is running,
\* also when runWorkflow is called again before an earlier Run has finished.
C23_IsRunningTracksRuns ==
    isRunning <=> \E i \in RunIndexes : workflowRuns[i].status = "running"

\* C24: runWorkflow called with an id that no workflow of the list has
\* creates no Run and leaves workflowRuns and isRunning as they were; no
\* invocation is left suspended.
C24_UnknownIdNoRun ==
    [][\A id \in CallIds :
          (~HasId(workflows, id) /\ runWorkflow(id))
              => /\ workflowRuns' = workflowRuns
                 /\ isRunning' = isRunning
                 /\ inflight' = inflight]_vars

\* runWorkflow can be called with an id that is not in the list while a Run
\* of a workflow of the list is running and isRunning is set: the call returns
\* before the try block, so its finally block does not clear isRunning
C24_Witness ==
    /\ isRunning
    /\ \E i \in RunIndexes :
          /\ workflowRuns[i].status = "running"
          /\ HasId(workflows, workflowRuns[i].workflowId)
    /\ ~HasId(workflows, UnknownId)
    /\ ENABLED runWorkflow(UnknownId)

\* C25: once there is a current workflow and the user no longer touches the
\* toolbar or the canvas (from some point on every step is a run of the
\* effects), the two effects of WorkflowCanvas reach a stable state: from
\* some point on no run of the effects changes the canvas or the current
\* workflow again.
C25_EffectsSettle ==
    (<>[][runEffects]_vars) => <>[][~runEffects]_vars

\* C26: Save in the toolbar stores the graph that is on the canvas: what Load
\* of the saved workflow puts on the canvas (the entry of localStorage, shown
\* by the first effect) is the nodes and edges the canvas showed at Save.
C26_SaveStoresCanvas ==
    [][\A name \in {"a", "b"} :
          handleSave(name)
              => LET id == currentWorkflow'[1].id
                 IN /\ HasId(storage', id)
                    /\ CanvasOf(FindById(storage', id))
                          = <<canvasNodes, canvasEdges>>]_vars

\* the ids of a list of workflows, and whether each occurs once
IdsOf(list) == {list[i].id : i \in 1..Len(list)}

IdsOnce(list) ==
    \A i, j \in 1..Len(list) : list[i].id = list[j].id => i = j

\* C27: after any sequence of saveWorkflow, loadWorkflow and deleteWorkflow
\* the list in memory and the list under the localStorage key "workflows"
\* hold the same workflow ids, each id once.
C27_SameIdsOnce ==
    /\ IdsOf(workflows) = IdsOf(storage)
    /\ IdsOnce(workflows)
    /\ IdsOnce(storage)

\* the workflow found at mount was loaded and saved again with another graph,
\* in place, next to a workflow saved later
C27_Witness ==
    /\ Len(workflows) >= 2
    /\ Len(storage) >= 2
    /\ HasId(workflows, StoredWorkflow.id)
    /\ FindById(workflows, StoredWorkflow.id) # StoredWorkflow
    /\ FindById(storage, StoredWorkflow.id) # StoredWorkflow

\* C28: in WorkFlowUI every change cancels the save armed for the previous
\* state, so at most one timer is armed and it holds the latest nodes and
\* edges; every write to "wf.reactflow" writes the latest nodes and edges, so
\* a save of an older state never overwrites a newer one; and once nodes and
\* edges stop changing the key holds exactly the latest nodes and edges.
C28_LatestPersisted ==
    /\ [](/\ Len(uiTimers) <= 1
          /\ \A k \in 1..Len(uiTimers) :
                 uiTimers[k] = [nodes |-> uiNodes, edges |-> uiEdges])
    /\ [][uiStorage' # uiStorage
             => uiStorage' = <<saveLocal(uiNodes, uiEdges)>>]_vars
    /\ <>[](uiTimers = <<>> /\ loadLocal(uiStorage) = saveLocal(uiNodes, uiEdges))

\* the key holds an older state while the timer armed for the latest state is
\* pending, at least two changes after the last save: the save armed for the
\* state in between was cancelled
C28_Witness ==
    /\ uiStorage # <<>>
    /\ Len(uiTimers) = 1
    /\ Len(uiStorage[1].nodes) + Len(uiStorage[1].edges) + 2
          <= Len(uiNodes) + Len(uiEdges)
    /\ uiEdges # <<>>

\* C29: for every schema reached in the builder, importing the text that
\* export shows for it succeeds and leaves the schema equal to the exported
\* one (the modal closes with no error); and an import that is rejected
\* leaves the schema unchanged and sets importError.
C29_ExportImports ==
    [][handleImport
          => /\ importText = exportJson(schema)
                   => /\ schema' = schema
                      /\ importError' = ""
                      /\ importText' = EmptyText
             /\ importError' # "" => schema' = schema]_vars

\* C30: moveElement only permutes the element list: it swaps the first
\* element with the id and its neighbour in the given direction, keeps every
\* other element and the title, and leaves the schema as it is when the
\* element is first and moved up, last and moved down, or the id is unknown.
C30_MoveOnlySwaps ==
    [][\A id \in ElementIds(schema.elements) \cup {"unknown"},
          direction \in {"up", "down"} :
          moveElement(id, direction)
              => LET old == schema.elements
                     new == schema'.elements
                     index == findIndex(old, id)
                     other == IF direction = "up" THEN index - 1 ELSE index + 1
                 IN /\ schema'.title = schema.title
                    /\ Len(new) = Len(old)
                    /\ IF id = "unknown" \/ other < 1 \/ other > Len(old)
                       THEN schema' = schema
                       ELSE /\ new[index] = old[other]
                            /\ new[other] = old[index]
                            /\ \A k \in 1..Len(old) \ {index, other} :
                                   new[k] = old[k]]_vars

\* the sample form's elements in another order, after a move
C30_Witness ==
    /\ ImportClosed
    /\ Len(schema.elements) = Len(SAMPLE_FORM.elements)
    /\ ElementIds(schema.elements) = ElementIds(SAMPLE_FORM.elements)
    /\ schema.elements[1].id = SAMPLE_FORM.elements[2].id
    /\ schema.elements[2].id = SAMPLE_FORM.elements[1].id

====
